---------------------------- MODULE Spec2Model ----------------------------
(***************************************************************************)
(* A model of sailnavsim-core's NetServer (src/src/NetServer.c): the       *)
(* accept loop and request loop of netServerThreadMain, and handleMessage  *)
(* with its parsing helpers; and of its BoatRegistry (src/BoatRegistry.c). *)
(*                                                                         *)
(* A byte is a one-character string; NUL stands for the zero byte.  A C    *)
(* string is a sequence of bytes read up to its first NUL.  Doubles are    *)
(* modelled by integers: every numeric literal the model sends is an       *)
(* integer literal.                                                        *)
(***************************************************************************)
EXTENDS Integers, Sequences, FiniteSets, TLC

NUL == "NUL"
NL == "\n"
COMMA == ","

(***************************************************************************)
(* Bounds of the model.                                                    *)
(***************************************************************************)
\* The capacity of the receive buffer of netServerThreadMain.  The source
\* sets 1024 (NetServer.c:127); the model runs the same code on a smaller
\* buffer.
MSG_BUF_SIZE == 18
\* The number of chunks the clients send, over all connections.
MaxChunks == 2
\* The number of accept() calls the model follows.
MaxAccepts == 2
\* A write() that accepts only part of the n bytes it is given accepts
\* n \div d of them, for a d in 2 .. MaxSplit.
MaxSplit == 2
\* The number of BoatEntry cells the heap can hold.
MaxBoats == 3

(***************************************************************************)
(* Program constants.                                                      *)
(***************************************************************************)
REQ_TYPE_INVALID == 0
REQ_TYPE_GET_WIND == 1
REQ_TYPE_GET_WIND_GUST == 2
REQ_TYPE_GET_OCEAN_CURRENT == 3
REQ_TYPE_GET_SEA_ICE == 4
REQ_TYPE_GET_WAVE_HEIGHT == 5

REQ_STR_GET_WIND == <<"w", "i", "n", "d">>
REQ_STR_GET_WIND_GUST == <<"w", "i", "n", "d", "_", "g", "u", "s", "t">>
REQ_STR_GET_OCEAN_CURRENT ==
    <<"o", "c", "e", "a", "n", "_", "c", "u", "r", "r", "e", "n", "t">>
REQ_STR_GET_SEA_ICE == <<"s", "e", "a", "_", "i", "c", "e">>
REQ_STR_GET_WAVE_HEIGHT ==
    <<"w", "a", "v", "e", "_", "h", "e", "i", "g", "h", "t">>

REQ_MAX_ARG_COUNT == 2
REQ_VAL_NONE == 0
REQ_VAL_INT == 1
REQ_VAL_DOUBLE == 2
REQ_VALS_NONE == <<REQ_VAL_NONE, REQ_VAL_NONE>>
REQ_VALS_LAT_LON == <<REQ_VAL_DOUBLE, REQ_VAL_DOUBLE>>

INVALID_DOUBLE_VALUE == -999

\* The size of handleMessage's response buffer, char buf[MSG_BUF_SIZE].
RespBufSize == 1024

COUNTER_ACCEPT == 0
COUNTER_ACCEPT_FAIL == 1
COUNTER_READ == 2
COUNTER_READ_FAIL == 3
COUNTER_DATA_TOO_LONG == 4
COUNTER_MESSAGE == 5
COUNTER_MESSAGE_FAIL == 6

\* The literal handleMessage writes at its fail label.
ErrorLine == <<"e", "r", "r", "o", "r", NL>>

(***************************************************************************)
(* C library functions, as the code uses them.                             *)
(***************************************************************************)
Min(a, b) == IF a < b THEN a ELSE b

\* The byte of the C string held in sequence s at 1-based position k; a
\* string literal ends with a NUL that the sequence does not hold.
CharAt(s, k) == IF k <= Len(s) THEN s[k] ELSE NUL

RECURSIVE StrLenFrom(_, _)
StrLenFrom(s, k) == IF CharAt(s, k) = NUL THEN k - 1 ELSE StrLenFrom(s, k + 1)

\* strlen(s)
StrLen(s) == StrLenFrom(s, 1)

\* The C string starting at s[1]: the bytes before the first NUL.
CStr(s) == SubSeq(s, 1, StrLen(s))

RECURSIVE StrNCmpFrom(_, _, _, _)
StrNCmpFrom(a, b, k, n) ==
    IF k > n THEN 0
    ELSE IF CharAt(a, k) /= CharAt(b, k) THEN 1
    ELSE IF CharAt(a, k) = NUL THEN 0
    ELSE StrNCmpFrom(a, b, k + 1, n)

\* strncmp(a, b, n): 0 when the first n bytes agree (or both strings end
\* before), non-zero (here 1) otherwise.
StrNCmp(a, b, n) == StrNCmpFrom(a, b, 1, n)

RECURSIVE SkipDelims(_, _)
SkipDelims(s, p) == IF CharAt(s, p) = COMMA THEN SkipDelims(s, p + 1) ELSE p

RECURSIVE TokenEnd(_, _)
TokenEnd(s, p) ==
    IF CharAt(s, p) \in {COMMA, NUL} THEN p ELSE TokenEnd(s, p + 1)

\* strtok_r(str, ",", &t) on the string held in s, scanning from position p
\* (the saved pointer): leading delimiters are skipped; at the end of the
\* string there is no token; otherwise the token runs to the next delimiter,
\* which is overwritten with NUL.  tok is the token (null: none), buf the
\* string as strtok_r leaves it, next the saved pointer.
StrTokR(s, p) ==
    LET b == SkipDelims(s, p)
        e == TokenEnd(s, b)
    IN  IF CharAt(s, b) = NUL
        THEN [null |-> TRUE, tok |-> <<>>, buf |-> s, next |-> b]
        ELSE [null |-> FALSE,
              tok  |-> SubSeq(s, b, e - 1),
              buf  |-> IF CharAt(s, e) = COMMA THEN [s EXCEPT ![e] = NUL] ELSE s,
              next |-> IF CharAt(s, e) = COMMA THEN e + 1 ELSE e]

DigitChars == <<"0", "1", "2", "3", "4", "5", "6", "7", "8", "9">>
IsDigit(c) == \E d \in 1..10 : DigitChars[d] = c
DigitVal(c) == (CHOOSE d \in 1..10 : DigitChars[d] = c) - 1

RECURSIVE DigitsValue(_, _, _)
DigitsValue(s, k, acc) ==
    IF IsDigit(CharAt(s, k))
    THEN DigitsValue(s, k + 1, acc * 10 + DigitVal(s[k]))
    ELSE acc

\* strtod(s, 0) on an integer literal: an optional sign, then the longest
\* run of digits; 0 when no digits follow (no conversion is performed).
StrToD(s) ==
    IF CharAt(s, 1) = "-" THEN 0 - DigitsValue(s, 2, 0)
    ELSE IF CharAt(s, 1) = "+" THEN DigitsValue(s, 2, 0)
    ELSE DigitsValue(s, 1, 0)

RECURSIVE NatDigits(_)
NatDigits(n) ==
    IF n < 10 THEN <<DigitChars[n + 1]>>
    ELSE NatDigits(n \div 10) \o <<DigitChars[(n % 10) + 1]>>

\* printf's %f of an integral double: sign, digits, six decimals.
FormatF(x) ==
    (IF x < 0 THEN <<"-">> ELSE <<>>)
        \o NatDigits(IF x < 0 THEN 0 - x ELSE x)
        \o <<".", "0", "0", "0", "0", "0", "0">>

\* snprintf(buf, bufSize, ...): at most bufSize - 1 bytes are stored.
SnPrintF(bufSize, text) == SubSeq(text, 1, Min(Len(text), bufSize - 1))

(***************************************************************************)
(* The parsing helpers of handleMessage.                                   *)
(***************************************************************************)
getReqType(s) ==
    IF StrNCmp(REQ_STR_GET_WIND, s, StrLen(s)) = 0
    THEN REQ_TYPE_GET_WIND
    ELSE IF StrNCmp(REQ_STR_GET_WIND_GUST, s, StrLen(s)) = 0
    THEN REQ_TYPE_GET_WIND_GUST
    ELSE IF StrNCmp(REQ_STR_GET_OCEAN_CURRENT, s, StrLen(s)) = 0
    THEN REQ_TYPE_GET_OCEAN_CURRENT
    ELSE IF StrNCmp(REQ_STR_GET_SEA_ICE, s, StrLen(s)) = 0
    THEN REQ_TYPE_GET_SEA_ICE
    ELSE IF StrNCmp(REQ_STR_GET_WAVE_HEIGHT, s, StrLen(s)) = 0
    THEN REQ_TYPE_GET_WAVE_HEIGHT
    ELSE REQ_TYPE_INVALID

getReqExpectedValueTypes(reqType) ==
    IF reqType \in {REQ_TYPE_GET_WIND, REQ_TYPE_GET_WIND_GUST,
                    REQ_TYPE_GET_OCEAN_CURRENT, REQ_TYPE_GET_SEA_ICE,
                    REQ_TYPE_GET_WAVE_HEIGHT}
    THEN REQ_VALS_LAT_LON
    ELSE REQ_VALS_NONE

\* The range check with its upper bounds exclusive.
areValuesValidExclusive(reqType, values) ==
    IF reqType \in {REQ_TYPE_GET_WIND, REQ_TYPE_GET_WIND_GUST,
                    REQ_TYPE_GET_OCEAN_CURRENT, REQ_TYPE_GET_SEA_ICE,
                    REQ_TYPE_GET_WAVE_HEIGHT}
    THEN /\ values[1] >= -90 /\ values[1] < 90
         /\ values[2] >= -180 /\ values[2] < 180
    ELSE TRUE

areValuesValidForReqType(reqType, values) ==
    IF reqType \in {REQ_TYPE_GET_WIND, REQ_TYPE_GET_WIND_GUST,
                    REQ_TYPE_GET_OCEAN_CURRENT, REQ_TYPE_GET_SEA_ICE,
                    REQ_TYPE_GET_WAVE_HEIGHT}
    THEN /\ values[1] >= -90 /\ values[1] <= 90
         /\ values[2] >= -180 /\ values[2] <= 180
    ELSE TRUE


(***************************************************************************)
(* The query service (libproteus), outside this repository: each call      *)
(* returns one of a few results, chosen by the environment.                *)
(***************************************************************************)
\* proteus_Weather_get(pos, &wx, true): wx.wind.angle, wx.wind.mag, wx.windGust
WeatherResults ==
    {[angle |-> 45, mag |-> 7, gust |-> 9], [angle |-> 0, mag |-> 0, gust |-> 0]}
\* proteus_Ocean_get(pos, &od): its result, od.current.angle, od.current.mag, od.ice
OceanResults ==
    {[valid |-> TRUE, angle |-> 45, mag |-> 2, ice |-> 1],
     [valid |-> FALSE, angle |-> 0, mag |-> 0, ice |-> 0]}
\* proteus_Wave_get(pos, &wd): its result, wd.waveHeight
WaveResults == {[valid |-> TRUE, waveHeight |-> 3], [valid |-> FALSE, waveHeight |-> 0]}

(***************************************************************************)
(* The response formatters.                                                *)
(***************************************************************************)
populateWindResponse(bufSize, pos, gust, wx) ==
    SnPrintF(bufSize,
        (IF gust THEN REQ_STR_GET_WIND_GUST ELSE REQ_STR_GET_WIND)
            \o <<COMMA>> \o FormatF(pos[1])
            \o <<COMMA>> \o FormatF(pos[2])
            \o <<COMMA>> \o FormatF(wx.angle)
            \o <<COMMA>> \o FormatF(IF gust THEN wx.gust ELSE wx.mag)
            \o <<NL>>)

\* The ocean response with the result fields left out when there is no data.
populateOceanResponseOmit(bufSize, pos, seaIce, od) ==
    SnPrintF(bufSize,
        (IF seaIce THEN REQ_STR_GET_SEA_ICE ELSE REQ_STR_GET_OCEAN_CURRENT)
            \o <<COMMA>> \o FormatF(pos[1])
            \o <<COMMA>> \o FormatF(pos[2])
            \o (IF ~od.valid THEN <<>>
                ELSE IF seaIce THEN <<COMMA>> \o FormatF(od.ice)
                ELSE <<COMMA>> \o FormatF(od.angle) \o <<COMMA>> \o FormatF(od.mag))
            \o <<NL>>)

populateOceanResponse(bufSize, pos, seaIce, od) ==
    IF seaIce
    THEN SnPrintF(bufSize,
            REQ_STR_GET_SEA_ICE
                \o <<COMMA>> \o FormatF(pos[1])
                \o <<COMMA>> \o FormatF(pos[2])
                \o <<COMMA>>
                \o FormatF(IF od.valid THEN od.ice ELSE INVALID_DOUBLE_VALUE)
                \o <<NL>>)
    ELSE SnPrintF(bufSize,
            REQ_STR_GET_OCEAN_CURRENT
                \o <<COMMA>> \o FormatF(pos[1])
                \o <<COMMA>> \o FormatF(pos[2])
                \o <<COMMA>>
                \o FormatF(IF od.valid THEN od.angle ELSE INVALID_DOUBLE_VALUE)
                \o <<COMMA>>
                \o FormatF(IF od.valid THEN od.mag ELSE INVALID_DOUBLE_VALUE)
                \o <<NL>>)

populateWaveResponse(bufSize, pos, wd) ==
    SnPrintF(bufSize,
        REQ_STR_GET_WAVE_HEIGHT
            \o <<COMMA>> \o FormatF(pos[1])
            \o <<COMMA>> \o FormatF(pos[2])
            \o <<COMMA>>
            \o FormatF(IF wd.valid THEN wd.waveHeight ELSE INVALID_DOUBLE_VALUE)
            \o <<NL>>)

(***************************************************************************)
(* handleMessage, lines 341-389: the request string is split and           *)
(* converted.  ok: the request reached line 392; reqType and values: what  *)
(* was parsed; buf: the request string as strtok_r left it.                *)
(***************************************************************************)
\* The value loop with a missing token read as 0 instead of failing.
RECURSIVE ParseValuesLenient(_, _, _, _, _)
ParseValuesLenient(b, t, vals, k, values) ==
    IF k > REQ_MAX_ARG_COUNT
    THEN [ok |-> TRUE, buf |-> b, values |-> values]
    ELSE LET s == StrTokR(b, t)
         IN  ParseValuesLenient(s.buf, s.next, vals, k + 1,
                 [values EXCEPT ![k] = IF s.null THEN 0 ELSE StrToD(s.tok)])

RECURSIVE ParseValues(_, _, _, _, _)
ParseValues(b, t, vals, k, values) ==
    IF k > REQ_MAX_ARG_COUNT
    THEN [ok |-> TRUE, buf |-> b, values |-> values]
    ELSE IF vals[k] = REQ_VAL_NONE
    THEN ParseValues(b, t, vals, k + 1, values)
    ELSE IF vals[k] \in {REQ_VAL_INT, REQ_VAL_DOUBLE}
    THEN LET s == StrTokR(b, t)
         IN  IF s.null
             THEN [ok |-> FALSE, buf |-> s.buf, values |-> values]
             ELSE ParseValues(s.buf, s.next, vals, k + 1,
                              [values EXCEPT ![k] = StrToD(s.tok)])
    ELSE [ok |-> FALSE, buf |-> b, values |-> values]

ParseRequest(reqStr) ==
    LET s == StrTokR(reqStr, 1)
        reqType == getReqType(s.tok)
        noValues == <<0, 0>>
    IN  IF s.null
        THEN [ok |-> FALSE, reqType |-> REQ_TYPE_INVALID, values |-> noValues,
              buf |-> s.buf]
        ELSE IF reqType = REQ_TYPE_INVALID
        THEN [ok |-> FALSE, reqType |-> reqType, values |-> noValues,
              buf |-> s.buf]
        ELSE LET p == ParseValues(s.buf, s.next,
                                  getReqExpectedValueTypes(reqType), 1, noValues)
             IN  [ok      |-> p.ok /\ areValuesValidForReqType(reqType, p.values),
                  reqType |-> reqType,
                  values  |-> p.values,
                  buf     |-> p.buf]

(***************************************************************************)
(* State.                                                                  *)
(***************************************************************************)
VARIABLES
    pc,         \* where the server thread is
    counter,    \* _counter
    buf,        \* netServerThreadMain's buf
    readyBytes, \* bytes of buf ready for parsing
    eos,        \* end of read stream seen
    i,          \* the scan's i: length of the found line, newline included
    fd,         \* the connection descriptor: "none", "open" or "closed"
    resp,       \* handleMessage's buf: the response to write
    wt,         \* handleMessage's wt: bytes of resp written so far
    rc,         \* what handleMessage returned
    \* the environment
    stream,     \* the bytes the client of this connection sends before it closes
    sent,       \* how many of them read() has delivered
    budget,     \* chunks the clients may still send
    \* history of the current connection
    lines,      \* the request strings handed to handleMessage
    resps,      \* the response handleMessage chose for each
    out,        \* the bytes write() accepted
    queried,    \* the query service the last handleMessage called, or "none"
    nodata,     \* that query reported that it has no data
    wfault,     \* "error": a write() failed; "short": the error line was cut
    reason,     \* why the request loop ended
    closes,     \* close() calls on the descriptor of this connection
    misuse,     \* a read, write or close on a descriptor that is not open
    scanTop,    \* highest offset of buf the last scan dereferenced (-1: none)
    rdSkew,     \* the last read() of this connection: the offset into buf it
                \* was given, less readyBytes
    rdEnd,      \* that offset plus the count it was given (-1: no read yet)
    rdZero,     \* a read() was given a count below 1
    returns,    \* how many calls of handleMessage returned 0, and non-zero
    \* start-up
    initDone,   \* NetServer_init has returned
    port,       \* the port it was called with
    ret,        \* what it returned
    listenFd,   \* _listenFd: "none" (0, no socket), "invalid" (socket() failed),
                \* "listening", or "closed" (closed and set to 0 again)
    thread,     \* the server thread has been created
    startFault, \* the call that failed in start-up, or "none"
    badAccept,  \* accept() was called on a socket that is not listening
    \* BoatRegistry
    _first,     \* the address of the first BoatEntry, or 0
    _boatCount, \* the number of entries in the list
    heap,       \* the BoatEntry cells, by address
    lastCall    \* the last call of the registry: its arguments, its result and
                \* the list before it

progVars == <<pc, counter, buf, readyBytes, eos, i, fd, resp, wt, rc>>
envVars == <<stream, sent, budget>>
histVars ==
    <<lines, resps, out, queried, nodata, wfault, reason, closes, misuse, scanTop,
      rdSkew, rdEnd, rdZero, returns>>
startVars == <<initDone, port, ret, listenFd, thread, startFault, badAccept>>
regVars == <<_first, _boatCount, heap, lastCall>>
vars == <<progVars, envVars, histVars, startVars, regVars>>

\* _counter[c]++.  The counters are unsigned ints and wrap at 2^32, which no
\* run within the bounds of the model reaches.
Incr(ctr, c) == [ctr EXCEPT ![c] = @ + 1]

(***************************************************************************)
(* handleMessage(fd, buf).                                                 *)
(***************************************************************************)
\* Lines 392-414: the responses the query service's results can lead to, with
\* the service asked and whether it reported that it has no data (the result
\* of proteus_Weather_get is not looked at).
Responses(reqType, pos) ==
    IF reqType = REQ_TYPE_GET_WIND
    THEN {[q |-> "weather", nodata |-> FALSE,
           text |-> populateWindResponse(RespBufSize, pos, FALSE, wx)] :
            wx \in WeatherResults}
    ELSE IF reqType = REQ_TYPE_GET_WIND_GUST
    THEN {[q |-> "weather", nodata |-> FALSE,
           text |-> populateWindResponse(RespBufSize, pos, TRUE, wx)] :
            wx \in WeatherResults}
    ELSE IF reqType = REQ_TYPE_GET_OCEAN_CURRENT
    THEN {[q |-> "ocean", nodata |-> ~od.valid,
           text |-> populateOceanResponse(RespBufSize, pos, FALSE, od)] :
            od \in OceanResults}
    ELSE IF reqType = REQ_TYPE_GET_SEA_ICE
    THEN {[q |-> "ocean", nodata |-> ~od.valid,
           text |-> populateOceanResponse(RespBufSize, pos, TRUE, od)] :
            od \in OceanResults}
    ELSE IF reqType = REQ_TYPE_GET_WAVE_HEIGHT
    THEN {[q |-> "wave", nodata |-> ~wd.valid,
           text |-> populateWaveResponse(RespBufSize, pos, wd)] :
            wd \in WaveResults}
    ELSE {}

\* Lines 341-417: parse, validate, query and format, up to the first write.
HandleMessage ==
    /\ pc = "handleMessage"
    /\ LET p == ParseRequest(buf)
       IN  /\ buf' = p.buf
           /\ IF p.ok /\ Responses(p.reqType, p.values) /= {}
              THEN \E r \in Responses(p.reqType, p.values) :
                      /\ resp' = SubSeq(r.text, 1, StrLen(r.text))
                      /\ queried' = r.q
                      /\ nodata' = r.nodata
                      /\ pc' = "write"
              ELSE /\ resp' = ErrorLine
                   /\ queried' = "none"
                   /\ nodata' = FALSE
                   /\ pc' = "fail"
    /\ wt' = 0
    /\ resps' = Append(resps, resp')
    /\ UNCHANGED <<counter, readyBytes, eos, i, fd, rc, envVars,
                   lines, out, wfault, reason, closes, misuse, scanTop>>
    /\ UNCHANGED startVars
    /\ UNCHANGED <<rdSkew, rdEnd, rdZero, returns>>
    /\ UNCHANGED regVars

\* What write(fd, p, n) may return: -1, or the number of bytes accepted.
WriteResults(n) == {-1, 0, n} \cup {n \div d : d \in 2 .. MaxSplit}

\* Lines 419-438, one turn of the write loop: write() fails, or accepts wb of
\* the bl - wt bytes left.
WriteLoop ==
    /\ pc = "write"
    /\ \E wb \in WriteResults(Len(resp) - wt) :
          IF wb < 0
          THEN /\ rc' = -1
               /\ pc' = "returned"
               /\ wfault' = "error"
               /\ UNCHANGED <<wt, out>>
          ELSE /\ wt' = wt + wb
               /\ out' = out \o SubSeq(resp, wt + 1, wt + wb)
               /\ IF wt' = Len(resp)
                  THEN rc' = 0 /\ pc' = "returned"
                  ELSE UNCHANGED <<rc, pc>>
               /\ UNCHANGED wfault
    /\ misuse' = (misuse \/ fd /= "open")
    /\ UNCHANGED <<counter, buf, readyBytes, eos, i, fd, resp, envVars,
                   lines, resps, queried, nodata, reason, closes, scanTop>>
    /\ UNCHANGED startVars
    /\ returns' = (IF pc' /= "returned" THEN returns
                   ELSE IF rc' = 0 THEN [returns EXCEPT !.ok = @ + 1]
                   ELSE [returns EXCEPT !.fail = @ + 1])
    /\ UNCHANGED <<rdSkew, rdEnd, rdZero>>
    /\ UNCHANGED regVars

\* Lines 440-446, the fail label: one write() of the error line, which fails
\* or accepts wb of its 6 bytes; handleMessage returns -1 either way.
WriteError ==
    /\ pc = "fail"
    /\ \E wb \in {-1} \cup (0 .. 6) :
          /\ out' = out \o SubSeq(ErrorLine, 1, IF wb < 0 THEN 0 ELSE wb)
          /\ wfault' = (IF wb < 0 THEN "error" ELSE IF wb /= 6 THEN "short" ELSE wfault)
    /\ rc' = -1
    /\ pc' = "returned"
    /\ misuse' = (misuse \/ fd /= "open")
    /\ UNCHANGED <<counter, buf, readyBytes, eos, i, fd, resp, wt, envVars,
                   lines, resps, queried, nodata, reason, closes, scanTop>>
    /\ UNCHANGED startVars
    /\ returns' = [returns EXCEPT !.fail = @ + 1]
    /\ UNCHANGED <<rdSkew, rdEnd, rdZero>>
    /\ UNCHANGED regVars

(***************************************************************************)
(* The clients.  A connection's client sends a stream made of chunks and   *)
(* then closes its end.                                                    *)
(***************************************************************************)
Fill(n) == [k \in 1 .. n |-> "y"]
\* a valid request
ReqValid == <<"w", "i", "n", "d", COMMA, "1", COMMA, "2", NL>>
\* a request with an unknown keyword
ReqBogus == <<"x", NL>>
\* a line that holds a zero byte
NulLine == <<NUL, NL>>
\* half a buffer of bytes with no newline
Filler == Fill(MSG_BUF_SIZE \div 2)
\* a line that fills the buffer exactly, its newline included
ExactLine == Fill(MSG_BUF_SIZE - 1) \o <<NL>>
\* a short line that holds a zero byte, and bytes after it to fill the buffer
NulLong == NulLine \o Fill(MSG_BUF_SIZE - 2)
\* nothing: a client that connects and closes
Nothing == <<>>
Chunks == {ReqValid, ReqBogus, NulLine, Filler, ExactLine, NulLong, Nothing}

RECURSIVE ChunkSeqs(_)
ChunkSeqs(n) ==
    IF n = 0 THEN {<<>>}
    ELSE {c \o s : c \in Chunks, s \in ChunkSeqs(n - 1)}

\* A byte of buf that was never written.
UNINIT == "uninit"
\* What a read of such a byte, or of the byte past the end of buf, may return.
JunkBytes == {NUL, "?"}

(***************************************************************************)
(* BoatRegistry (src/BoatRegistry.c): a singly linked list of BoatEntry     *)
(* cells, each holding a name, a boat and the address of the next cell.    *)
(***************************************************************************)
\* The names and boats the registry is called with.
Names == {"a", "b", "c"}
Boats == {"boat1", "boat2"}

\* The addresses malloc() may return; 0 is the null pointer.
Addrs == 1 .. MaxBoats
\* A cell that is not allocated.
FreeCell == [used |-> FALSE, name |-> "", boat |-> "", next |-> 0]

\* The results of BoatRegistry_add (BoatRegistry.h).
BoatRegistry_OK == "BoatRegistry_OK"
BoatRegistry_EXISTS == "BoatRegistry_EXISTS"
\* A null Boat*.
NullBoat == "null"

\* The while loops of lines 26-35 and 76-100: from entry e, with last the
\* entry before it, to the entry named name (e: its address, or 0 when the
\* list ends without one).
RECURSIVE Walk(_, _, _, _)
Walk(h, e, last, name) ==
    IF e = 0 THEN [e |-> 0, last |-> last]
    ELSE IF h[e].name = name THEN [e |-> e, last |-> last]
    ELSE Walk(h, h[e].next, e, name)

\* The entries reachable from e, in order.
RECURSIVE Entries(_, _)
Entries(h, e) ==
    IF e = 0 THEN <<>>
    ELSE <<[name |-> h[e].name, boat |-> h[e].boat]>> \o Entries(h, h[e].next)

\* Lines 21-53.
BoatRegistry_add ==
    /\ \E boat \in Boats, name \in Names :
          LET w == Walk(heap, _first, _first, name)
          IN  IF w.e /= 0
              THEN /\ lastCall' = [op |-> "add", name |-> name, boat |-> boat,
                                   result |-> BoatRegistry_EXISTS,
                                   before |-> Entries(heap, _first)]
                   /\ UNCHANGED <<_first, _boatCount, heap>>
              ELSE \E newEntry \in {a \in Addrs : ~heap[a].used} :
                      LET cell == [used |-> TRUE, name |-> name, boat |-> boat,
                                   next |-> 0]
                      IN  /\ heap' = (IF w.last = 0
                                      THEN [heap EXCEPT ![newEntry] = cell]
                                      ELSE [heap EXCEPT ![newEntry] = cell,
                                                        ![w.last].next = newEntry])
                          /\ _first' = (IF w.last = 0 THEN newEntry ELSE _first)
                          /\ _boatCount' = _boatCount + 1
                          /\ lastCall' = [op |-> "add", name |-> name, boat |-> boat,
                                          result |-> BoatRegistry_OK,
                                          before |-> Entries(heap, _first)]
    /\ UNCHANGED <<progVars, envVars, histVars, startVars>>

\* Lines 55-69.
BoatRegistry_get ==
    /\ \E name \in Names :
          LET w == Walk(heap, _first, _first, name)
          IN  lastCall' = [op |-> "get", name |-> name, boat |-> NullBoat,
                           result |-> IF w.e /= 0 THEN heap[w.e].boat ELSE NullBoat,
                           before |-> Entries(heap, _first)]
    /\ UNCHANGED <<_first, _boatCount, heap>>
    /\ UNCHANGED <<progVars, envVars, histVars, startVars>>

\* The removal unlinking everything before the entry it removes.
BoatRegistry_removeFront ==
    /\ \E name \in Names :
          LET w == Walk(heap, _first, _first, name)
          IN  IF w.e /= 0
              THEN /\ _first' = heap[w.e].next
                   /\ heap' = [heap EXCEPT ![w.e] = FreeCell]
                   /\ _boatCount' = _boatCount - 1
                   /\ lastCall' = [op |-> "remove", name |-> name, boat |-> NullBoat,
                                   result |-> heap[w.e].boat,
                                   before |-> Entries(heap, _first)]
              ELSE /\ lastCall' = [op |-> "remove", name |-> name, boat |-> NullBoat,
                                   result |-> NullBoat,
                                   before |-> Entries(heap, _first)]
                   /\ UNCHANGED <<_first, _boatCount, heap>>
    /\ UNCHANGED <<progVars, envVars, histVars, startVars>>

\* Lines 71-103.  The freed cell can be allocated again.
BoatRegistry_remove ==
    /\ \E name \in Names :
          LET w == Walk(heap, _first, _first, name)
          IN  IF w.e /= 0
              THEN /\ _first' = (IF w.e = _first THEN heap[w.e].next ELSE _first)
                   /\ heap' = (IF w.e = _first
                               THEN [heap EXCEPT ![w.e] = FreeCell]
                               ELSE [heap EXCEPT ![w.last].next = heap[w.e].next,
                                                 ![w.e] = FreeCell])
                   /\ _boatCount' = _boatCount - 1
                   /\ lastCall' = [op |-> "remove", name |-> name, boat |-> NullBoat,
                                   result |-> heap[w.e].boat,
                                   before |-> Entries(heap, _first)]
              ELSE /\ lastCall' = [op |-> "remove", name |-> name, boat |-> NullBoat,
                                   result |-> NullBoat,
                                   before |-> Entries(heap, _first)]
                   /\ UNCHANGED <<_first, _boatCount, heap>>
    /\ UNCHANGED <<progVars, envVars, histVars, startVars>>

\* Lines 105-113, called with a non-null boatCount: the result is _first, and
\* *boatCount is set to _boatCount.
BoatRegistry_getAllBoats ==
    /\ lastCall' = [op |-> "getAllBoats", name |-> "", boat |-> NullBoat,
                    result |-> <<_first, _boatCount>>,
                    before |-> Entries(heap, _first)]
    /\ UNCHANGED <<_first, _boatCount, heap>>
    /\ UNCHANGED <<progVars, envVars, histVars, startVars>>

(***************************************************************************)
(* Start-up: NetServer_init and startListen.                               *)
(***************************************************************************)
\* The ports NetServer_init is called with.
Ports == {-2, -1, 0}
\* How the system calls of a start-up turn out: the first call that fails, or
\* "none".
StartOutcomes == {"socket", "bind", "listen", "thread", "none"}

\* Lines 293-334: startListen, given the first of its calls that fails.  rc is
\* its result, listenFd what it leaves in _listenFd.
startListen(outcome) ==
    IF outcome = "socket" THEN [rc |-> -1, listenFd |-> "invalid"]
    ELSE IF outcome = "bind" THEN [rc |-> -2, listenFd |-> "closed"]
    ELSE IF outcome = "listen" THEN [rc |-> -3, listenFd |-> "closed"]
    ELSE [rc |-> 0, listenFd |-> "listening"]

\* NetServer_init creating the server thread whatever startListen returned.
NetServer_initAnyway ==
    /\ ~initDone
    /\ initDone' = TRUE
    /\ \E p \in Ports, outcome \in StartOutcomes :
          /\ port' = p
          /\ IF p < 0
             THEN /\ ret' = -3
                  /\ startFault' = "port"
                  /\ UNCHANGED <<listenFd, thread>>
             ELSE LET sl == startListen(outcome)
                  IN  /\ listenFd' = sl.listenFd
                      /\ startFault' = outcome
                      /\ thread' = (outcome /= "thread")
                      /\ ret' = (IF sl.rc /= 0 THEN -2
                                 ELSE IF outcome = "thread" THEN -1 ELSE 0)
    /\ UNCHANGED <<progVars, envVars, histVars, badAccept>>
    /\ UNCHANGED regVars

\* Lines 95-124: NetServer_init(port).
NetServer_init ==
    /\ ~initDone
    /\ initDone' = TRUE
    /\ \E p \in Ports, outcome \in StartOutcomes :
          /\ port' = p
          /\ IF p < 0
             THEN /\ ret' = -3
                  /\ startFault' = "port"
                  /\ UNCHANGED <<listenFd, thread>>
             ELSE LET sl == startListen(outcome)
                  IN  /\ listenFd' = sl.listenFd
                      /\ startFault' = outcome
                      /\ IF sl.rc /= 0
                         THEN ret' = -2 /\ thread' = FALSE
                         ELSE IF outcome = "thread"
                         THEN ret' = -1 /\ thread' = FALSE
                         ELSE ret' = 0 /\ thread' = TRUE
    /\ UNCHANGED <<progVars, envVars, histVars, badAccept>>
    /\ UNCHANGED regVars

(***************************************************************************)
(* netServerThreadMain.                                                    *)
(***************************************************************************)
\* read() given the start of buf whatever is buffered.
ReadOffsetFront(ready) == 0

\* Line 211: the offset into buf given to read(), buf + readyBytes.
ReadOffset(ready) == ready

\* read() given the size of buf whatever is buffered.
ReadCountWhole(ready) == MSG_BUF_SIZE

\* Line 211: the count given to read(), MSG_BUF_SIZE - readyBytes.
ReadCount(ready) == MSG_BUF_SIZE - ready

\* Line 211: buf after read() has stored the bytes data at offset off; a byte
\* stored past the end of buf does not land in buf.
ReadStore(b, off, data) ==
    [k \in 1 .. MSG_BUF_SIZE |->
        IF k > off /\ k <= off + Len(data) THEN data[k - off] ELSE b[k]]

RECURSIVE ScanFrom(_, _, _, _)
ScanFrom(b, k, bound, junk) ==
    LET c == IF k < Len(b) /\ b[k + 1] /= UNINIT THEN b[k + 1] ELSE junk
    IN  IF c = NUL \/ ~(k < bound)
        THEN [i |-> k, foundNewline |-> FALSE, top |-> k]
        ELSE IF c = NL
        THEN [i |-> k + 1, foundNewline |-> TRUE, top |-> k]
        ELSE ScanFrom(b, k + 1, bound, junk)

\* Lines 229-240: the scan for the end of the next request string, over the
\* first bound bytes of b; junk is what a byte that was never written, or the
\* byte after the end of b, reads as.  i and foundNewline are the loop's
\* results, top the highest offset dereferenced.
Scan(b, bound, junk) == ScanFrom(b, 0, bound, junk)

\* The scan limited to the bytes just read.
ScanLimitNewBytes(rb, ready) == rb

\* Line 232: the number of bytes the scan may look at, rb + readyBytes.
ScanLimit(rb, ready) == rb + ready

\* The compaction moved from one byte too early: the terminator is kept.
MemMoveOffByOne(b, n) ==
    [k \in 1 .. MSG_BUF_SIZE |->
        IF k <= MSG_BUF_SIZE - n + 1 THEN b[k + n - 1] ELSE b[k]]

\* Line 274: memmove(buf, buf + n, MSG_BUF_SIZE - n).
MemMove(b, n) ==
    [k \in 1 .. MSG_BUF_SIZE |-> IF k <= MSG_BUF_SIZE - n THEN b[k + n] ELSE b[k]]

\* Lines 229-264: after the read of rb bytes into b (e: eos, ctr: _counter),
\* scan, and either go round the request loop again, leave it at end of
\* stream, or terminate the request string and call handleMessage.
ScanAndDispatch(b, rb, e, ctr) ==
    \E junk \in JunkBytes :
       LET sc == Scan(b, ScanLimit(rb, readyBytes), junk)
       IN  /\ readyBytes' = readyBytes + rb
           /\ eos' = e
           /\ i' = sc.i
           /\ scanTop' = sc.top
           /\ IF ~sc.foundNewline
              THEN /\ buf' = b
                   /\ counter' = ctr
                   /\ lines' = lines
                   /\ pc' = (IF e THEN "close" ELSE "loop")
                   /\ reason' = (IF e THEN "eos" ELSE reason)
              ELSE /\ buf' = [b EXCEPT ![sc.i] = NUL]
                   /\ counter' = Incr(ctr, COUNTER_MESSAGE)
                   /\ lines' = Append(lines, CStr(buf'))
                   /\ pc' = "handleMessage"
                   /\ reason' = reason

\* Lines 165-180, in the server thread: accept(_listenFd) fails, or returns
\* the connection of a client, who sends some of the chunks left.  With no
\* chunk left no client connects, and accept() blocks.
Accept ==
    /\ thread
    /\ pc = "accept"
    /\ counter[COUNTER_ACCEPT] < MaxAccepts
    /\ budget > 0
    /\ \/ /\ counter' = Incr(Incr(counter, COUNTER_ACCEPT), COUNTER_ACCEPT_FAIL)
          /\ fd' = "none"
          /\ stream' = <<>>
          /\ UNCHANGED <<pc, readyBytes, eos, budget>>
       \/ /\ counter' = Incr(counter, COUNTER_ACCEPT)
          /\ fd' = "open"
          /\ readyBytes' = 0
          /\ eos' = FALSE
          /\ pc' = "loop"
          /\ \E n \in 1 .. budget :
                /\ stream' \in ChunkSeqs(n)
                /\ budget' = budget - n
    /\ sent' = 0
    /\ lines' = <<>>
    /\ resps' = <<>>
    /\ out' = <<>>
    /\ queried' = "none"
    /\ nodata' = FALSE
    /\ wfault' = "none"
    /\ reason' = "none"
    /\ closes' = 0
    /\ UNCHANGED <<buf, i, resp, wt, rc, misuse, scanTop>>
    /\ badAccept' = (badAccept \/ listenFd /= "listening")
    /\ UNCHANGED <<initDone, port, ret, listenFd, thread, startFault>>
    /\ UNCHANGED <<rdSkew, rdEnd, rdZero, returns>>
    /\ UNCHANGED regVars

\* The oversized message leaving the accept loop's body without close(fd).
TooLongNoClose ==
    /\ pc = "loop"
    /\ readyBytes = MSG_BUF_SIZE
    /\ counter' = Incr(counter, COUNTER_DATA_TOO_LONG)
    /\ reason' = "toolong"
    /\ pc' = "accept"
    /\ UNCHANGED <<buf, readyBytes, eos, i, fd, resp, wt, rc, envVars,
                   lines, resps, out, queried, nodata, wfault, closes, misuse, scanTop>>
    /\ UNCHANGED startVars
    /\ UNCHANGED <<rdSkew, rdEnd, rdZero, returns>>
    /\ UNCHANGED regVars

\* Lines 187-194: the buffer is full.
TooLong ==
    /\ pc = "loop"
    /\ readyBytes = MSG_BUF_SIZE
    /\ counter' = Incr(counter, COUNTER_DATA_TOO_LONG)
    /\ reason' = "toolong"
    /\ pc' = "close"
    /\ UNCHANGED <<buf, readyBytes, eos, i, fd, resp, wt, rc, envVars,
                   lines, resps, out, queried, nodata, wfault, closes, misuse, scanTop>>
    /\ UNCHANGED startVars
    /\ UNCHANGED <<rdSkew, rdEnd, rdZero, returns>>
    /\ UNCHANGED regVars

\* The failed read counted as a failure only.
ReadFailUncounted ==
    /\ pc = "loop"
    /\ readyBytes /= MSG_BUF_SIZE
    /\ ~eos
    /\ counter' = Incr(counter, COUNTER_READ_FAIL)
    /\ reason' = "readfail"
    /\ pc' = "close"
    /\ misuse' = (misuse \/ fd /= "open")
    /\ UNCHANGED <<buf, readyBytes, eos, i, fd, resp, wt, rc, envVars,
                   lines, resps, out, queried, nodata, wfault, closes, scanTop>>
    /\ UNCHANGED startVars
    /\ rdSkew' = ReadOffset(readyBytes) - readyBytes
    /\ rdEnd' = ReadOffset(readyBytes) + ReadCount(readyBytes)
    /\ rdZero' = (rdZero \/ ReadCount(readyBytes) < 1)
    /\ UNCHANGED returns
    /\ UNCHANGED regVars

\* Lines 196-220: read() fails.
ReadFail ==
    /\ pc = "loop"
    /\ readyBytes /= MSG_BUF_SIZE
    /\ ~eos
    /\ counter' = Incr(Incr(counter, COUNTER_READ), COUNTER_READ_FAIL)
    /\ reason' = "readfail"
    /\ pc' = "close"
    /\ misuse' = (misuse \/ fd /= "open")
    /\ UNCHANGED <<buf, readyBytes, eos, i, fd, resp, wt, rc, envVars,
                   lines, resps, out, queried, nodata, wfault, closes, scanTop>>
    /\ UNCHANGED startVars
    /\ rdSkew' = ReadOffset(readyBytes) - readyBytes
    /\ rdEnd' = ReadOffset(readyBytes) + ReadCount(readyBytes)
    /\ rdZero' = (rdZero \/ ReadCount(readyBytes) < 1)
    /\ UNCHANGED returns
    /\ UNCHANGED regVars

\* Lines 196-264: read() stores the next rb bytes of the stream at
\* buf + readyBytes, at most MSG_BUF_SIZE - readyBytes of them.
ReadData ==
    /\ pc = "loop"
    /\ readyBytes /= MSG_BUF_SIZE
    /\ ~eos
    /\ \E rb \in 1 .. Min(ReadCount(readyBytes), Len(stream) - sent) :
          /\ sent' = sent + rb
          /\ ScanAndDispatch(
                ReadStore(buf, ReadOffset(readyBytes), SubSeq(stream, sent + 1, sent + rb)),
                rb, FALSE, Incr(counter, COUNTER_READ))
    /\ misuse' = (misuse \/ fd /= "open")
    /\ UNCHANGED <<fd, resp, wt, rc, stream, budget,
                   resps, out, queried, nodata, wfault, closes>>
    /\ UNCHANGED startVars
    /\ rdSkew' = ReadOffset(readyBytes) - readyBytes
    /\ rdEnd' = ReadOffset(readyBytes) + ReadCount(readyBytes)
    /\ rdZero' = (rdZero \/ ReadCount(readyBytes) < 1)
    /\ UNCHANGED returns
    /\ UNCHANGED regVars

\* Lines 196-264: read() returns 0: the client has closed its end, or the
\* count given to read() is 0.
ReadEos ==
    /\ pc = "loop"
    /\ readyBytes /= MSG_BUF_SIZE
    /\ ~eos
    /\ sent = Len(stream) \/ ReadCount(readyBytes) = 0
    /\ ScanAndDispatch(buf, 0, TRUE, Incr(counter, COUNTER_READ))
    /\ misuse' = (misuse \/ fd /= "open")
    /\ UNCHANGED <<fd, resp, wt, rc, envVars,
                   resps, out, queried, nodata, wfault, closes>>
    /\ UNCHANGED startVars
    /\ rdSkew' = ReadOffset(readyBytes) - readyBytes
    /\ rdEnd' = ReadOffset(readyBytes) + ReadCount(readyBytes)
    /\ rdZero' = (rdZero \/ ReadCount(readyBytes) < 1)
    /\ UNCHANGED returns
    /\ UNCHANGED regVars

\* Lines 196-264 without a read: at end of stream, or select() returns 0
\* while bytes are buffered.
NoRead ==
    /\ pc = "loop"
    /\ readyBytes /= MSG_BUF_SIZE
    /\ eos \/ readyBytes /= 0
    /\ ScanAndDispatch(buf, 0, eos, counter)
    /\ misuse' = (misuse \/ (~eos /\ fd /= "open"))
    /\ UNCHANGED <<fd, resp, wt, rc, envVars,
                   resps, out, queried, nodata, wfault, closes>>
    /\ UNCHANGED startVars
    /\ UNCHANGED <<rdSkew, rdEnd, rdZero, returns>>
    /\ UNCHANGED regVars

\* Lines 265-281: handleMessage has returned.
AfterMessage ==
    /\ pc = "returned"
    /\ IF rc /= 0
       THEN /\ counter' = Incr(counter, COUNTER_MESSAGE_FAIL)
            /\ reason' = "msgfail"
            /\ pc' = "close"
            /\ UNCHANGED <<buf, readyBytes>>
       ELSE /\ buf' = MemMove(buf, i)
            /\ readyBytes' = readyBytes - i
            /\ pc' = (IF eos /\ readyBytes' = 0 THEN "close" ELSE "loop")
            /\ reason' = (IF eos /\ readyBytes' = 0 THEN "eos" ELSE reason)
            /\ UNCHANGED counter
    /\ UNCHANGED <<eos, i, fd, resp, wt, rc, envVars,
                   lines, resps, out, queried, nodata, wfault, closes, misuse, scanTop>>
    /\ UNCHANGED startVars
    /\ UNCHANGED <<rdSkew, rdEnd, rdZero, returns>>
    /\ UNCHANGED regVars

\* close(fd), and then the thread leaves the accept loop after a connection
\* that ended on a failure.
CloseAndLeave ==
    /\ pc = "close"
    /\ fd' = "closed"
    /\ closes' = closes + 1
    /\ misuse' = (misuse \/ fd /= "open")
    /\ pc' = (IF reason = "eos" THEN "accept" ELSE "exit")
    /\ UNCHANGED <<counter, buf, readyBytes, eos, i, resp, wt, rc, envVars,
                   lines, resps, out, queried, nodata, wfault, reason, scanTop>>
    /\ UNCHANGED startVars
    /\ UNCHANGED <<rdSkew, rdEnd, rdZero, returns>>
    /\ UNCHANGED regVars

\* Line 284: close(fd), and round the accept loop.  The locals of the loop
\* body go out of scope (each is initialised again before its next use), and
\* the history of the connection ends with it.
Close ==
    /\ pc = "close"
    /\ fd' = "closed"
    /\ closes' = closes + 1
    /\ misuse' = (misuse \/ fd /= "open")
    /\ pc' = "accept"
    /\ readyBytes' = 0
    /\ eos' = FALSE
    /\ i' = 0
    /\ resp' = <<>>
    /\ wt' = 0
    /\ rc' = 0
    /\ stream' = <<>>
    /\ sent' = 0
    /\ lines' = <<>>
    /\ resps' = <<>>
    /\ out' = <<>>
    /\ queried' = "none"
    /\ nodata' = FALSE
    /\ wfault' = "none"
    /\ reason' = "none"
    /\ scanTop' = -1
    /\ UNCHANGED <<counter, buf, budget>>
    /\ UNCHANGED startVars
    /\ rdSkew' = 0
    /\ rdEnd' = -1
    /\ UNCHANGED <<rdZero, returns>>
    /\ UNCHANGED regVars

\* Before NetServer_init is called: _listenFd is 0 (line 92), the counters
\* are 0 (line 137).  The thread, once created, is about to call accept() and
\* has buf uninitialised (line 141).
Init ==
    /\ pc = "accept"
    /\ counter = [c \in COUNTER_ACCEPT .. COUNTER_MESSAGE_FAIL |-> 0]
    /\ buf = [k \in 1 .. MSG_BUF_SIZE |-> UNINIT]
    /\ readyBytes = 0
    /\ eos = FALSE
    /\ i = 0
    /\ fd = "none"
    /\ resp = <<>>
    /\ wt = 0
    /\ rc = 0
    /\ stream = <<>>
    /\ sent = 0
    /\ budget = MaxChunks
    /\ lines = <<>>
    /\ resps = <<>>
    /\ out = <<>>
    /\ queried = "none"
    /\ nodata = FALSE
    /\ wfault = "none"
    /\ reason = "none"
    /\ closes = 0
    /\ misuse = FALSE
    /\ scanTop = -1
    /\ rdSkew = 0
    /\ rdEnd = -1
    /\ rdZero = FALSE
    /\ returns = [ok |-> 0, fail |-> 0]
    /\ initDone = FALSE
    /\ port = 0
    /\ ret = 0
    /\ listenFd = "none"
    /\ thread = FALSE
    /\ startFault = "none"
    /\ badAccept = FALSE
    /\ _first = 0
    /\ _boatCount = 0
    /\ heap = [a \in Addrs |-> FreeCell]
    /\ lastCall = [op |-> "none", name |-> "", boat |-> NullBoat,
                   result |-> NullBoat, before |-> <<>>]

Next ==
    \/ NetServer_init
    \/ Accept
    \/ TooLong
    \/ ReadFail
    \/ ReadData
    \/ ReadEos
    \/ NoRead
    \/ HandleMessage
    \/ WriteLoop
    \/ WriteError
    \/ AfterMessage
    \/ Close

Spec == Init /\ [][Next]_vars

\* The server thread keeps running: once the request loop is left, close(fd)
\* is executed.
SpecLive == Spec /\ WF_vars(Close)

\* The registry on its own, called in any order; _first and _boatCount start
\* at 0 (BoatRegistry.c, lines 17-18).
NextRegistry ==
    \/ BoatRegistry_add
    \/ BoatRegistry_get
    \/ BoatRegistry_remove
    \/ BoatRegistry_getAllBoats

SpecRegistry == Init /\ [][NextRegistry]_vars

(***************************************************************************)
(* handleMessage on its own: called once, on a request string built from a *)
(* keyword field and up to two numeric fields.                             *)
(***************************************************************************)
KeywordFields ==
    {REQ_STR_GET_WIND, REQ_STR_GET_WIND_GUST, REQ_STR_GET_OCEAN_CURRENT,
     REQ_STR_GET_SEA_ICE, REQ_STR_GET_WAVE_HEIGHT,
     <<"w">>, <<"w", "i", "n", "d", "_", "g">>, <<"W", "i", "n", "d">>,
     <<"w", "i", "n", "d", "s">>, <<"b", "o", "g", "u", "s">>}
LatFields ==
    {<<"-", "9", "1">>, <<"-", "9", "0">>, <<"0">>, <<"9", "0">>, <<"9", "1">>}
LonFields ==
    {<<"-", "1", "8", "1">>, <<"-", "1", "8", "0">>, <<"7">>,
     <<"1", "8", "0">>, <<"1", "8", "1">>}

CodecLines ==
    {<<>>}
        \cup KeywordFields
        \cup {kw \o <<COMMA>> \o lat : kw \in KeywordFields, lat \in LatFields}
        \cup {kw \o <<COMMA>> \o lat \o <<COMMA>> \o lon :
                kw \in KeywordFields, lat \in LatFields, lon \in LonFields}
        \cup {<<COMMA>> \o kw \o <<COMMA>> \o lat \o <<COMMA>> \o lon :
                kw \in KeywordFields, lat \in {<<"9", "0">>}, lon \in {<<"7">>}}

\* handleMessage is entered with the request string, NUL-terminated (line 261).
InitCodec ==
    /\ pc = "handleMessage"
    /\ counter = [c \in COUNTER_ACCEPT .. COUNTER_MESSAGE_FAIL |-> 0]
    /\ \E line \in CodecLines :
          /\ buf = line \o <<NUL>>
          /\ lines = <<line>>
          /\ stream = line \o <<NL>>
          /\ sent = Len(line) + 1
          /\ readyBytes = Len(line) + 1
          /\ i = Len(line) + 1
    /\ eos = FALSE
    /\ fd = "open"
    /\ resp = <<>>
    /\ wt = 0
    /\ rc = 0
    /\ budget = 0
    /\ resps = <<>>
    /\ out = <<>>
    /\ queried = "none"
    /\ nodata = FALSE
    /\ wfault = "none"
    /\ reason = "none"
    /\ closes = 0
    /\ misuse = FALSE
    /\ scanTop = -1
    /\ rdSkew = 0
    /\ rdEnd = -1
    /\ rdZero = FALSE
    /\ returns = [ok |-> 0, fail |-> 0]
    /\ initDone = TRUE
    /\ port = 0
    /\ ret = 0
    /\ listenFd = "listening"
    /\ thread = TRUE
    /\ startFault = "none"
    /\ badAccept = FALSE
    /\ _first = 0
    /\ _boatCount = 0
    /\ heap = [a \in Addrs |-> FreeCell]
    /\ lastCall = [op |-> "none", name |-> "", boat |-> NullBoat,
                   result |-> NullBoat, before |-> <<>>]

NextCodec ==
    \/ HandleMessage
    \/ WriteLoop
    \/ WriteError

SpecCodec == InitCodec /\ [][NextCodec]_vars

(***************************************************************************)
(* Properties.                                                             *)
(***************************************************************************)
Keywords ==
    {REQ_STR_GET_WIND, REQ_STR_GET_WIND_GUST, REQ_STR_GET_OCEAN_CURRENT,
     REQ_STR_GET_SEA_ICE, REQ_STR_GET_WAVE_HEIGHT}

IsPrefixOf(a, b) == Len(a) <= Len(b) /\ SubSeq(b, 1, Len(a)) = a

RECURSIVE Flatten(_)
Flatten(ss) == IF ss = <<>> THEN <<>> ELSE Head(ss) \o Flatten(Tail(ss))

\* The pieces of s between its separators sep, empty pieces included.
RECURSIVE SplitAt(_, _, _)
SplitAt(s, sep, cur) ==
    IF s = <<>> THEN <<cur>>
    ELSE IF Head(s) = sep THEN <<cur>> \o SplitAt(Tail(s), sep, <<>>)
    ELSE SplitAt(Tail(s), sep, Append(cur, Head(s)))

\* The comma-separated fields of a request line.
Fields(line) == SplitAt(line, COMMA, <<>>)

\* handleMessage has decided its response to the last request string.
Decided == pc /= "handleMessage" /\ lines /= <<>> /\ Len(resps) = Len(lines)
LastLine == lines[Len(lines)]
LastResp == resps[Len(resps)]

\* The response to the last request string is the error line: no query was
\* made, write() was given the error line, and nothing but bytes of the error
\* line went out for it - all of them once write() accepted them all.
AnsweredWithError ==
    /\ LastResp = ErrorLine
    /\ queried = "none"
    /\ \E n \in 0 .. Len(ErrorLine) :
          out = Flatten(SubSeq(resps, 1, Len(resps) - 1)) \o SubSeq(ErrorLine, 1, n)
    /\ (pc = "returned" /\ wfault = "none"
          => out = Flatten(SubSeq(resps, 1, Len(resps) - 1)) \o ErrorLine)

\* C5: a request is recognised only when its first comma-separated field is
\* exactly one of the five keywords; with any other first field (a proper
\* prefix of a keyword, another case, an empty first field) the response is
\* the error line and no query is made.
C5_ExactKeywordOnly ==
    (Decided /\ Fields(LastLine)[1] \notin Keywords) => AnsweredWithError

\* C6: for each command, a request whose parsed latitude is outside [-90, 90]
\* or whose parsed longitude is outside [-180, 180] is answered with the error
\* line only and the query service is not called; a request with both inside,
\* the boundaries included, is not rejected: a query is made and a data line
\* is the response.
C6_RangeValidation ==
    (Decided /\ Len(Fields(LastLine)) = 3 /\ Fields(LastLine)[1] \in Keywords)
        => LET lat == StrToD(Fields(LastLine)[2])
               lon == StrToD(Fields(LastLine)[3])
           IN  IF lat >= -90 /\ lat <= 90 /\ lon >= -180 /\ lon <= 180
               THEN /\ LastResp /= ErrorLine
                    /\ queried /= "none"
                    /\ pc /= "fail"
               ELSE AnsweredWithError

\* "sea_ice,91,7" was answered with the error line, written in full.
C6_Witness ==
    /\ pc = "returned"
    /\ lines = <<REQ_STR_GET_SEA_ICE \o <<COMMA, "9", "1", COMMA, "7">>>>
    /\ out = ErrorLine
    /\ queried = "none"

\* C7: a request line with a recognised keyword and fewer than two argument
\* tokens after it is answered with the error line only: no query is made and
\* no data line is produced.
C7_MissingArgument ==
    (Decided /\ Len(Fields(LastLine)) < 3 /\ Fields(LastLine)[1] \in Keywords)
        => AnsweredWithError

\* "wind,90" was answered with the error line, written in full.
C7_Witness ==
    /\ pc = "returned"
    /\ lines = <<REQ_STR_GET_WIND \o <<COMMA, "9", "0">>>>
    /\ out = ErrorLine
    /\ queried = "none"

\* The newline-terminated lines of a byte stream, in order.
StreamLines(s) ==
    LET pieces == SplitAt(s, NL, <<>>) IN SubSeq(pieces, 1, Len(pieces) - 1)

\* The responses handleMessage may choose for a request line.
AnswersTo(line) ==
    LET p == ParseRequest(line \o <<NUL>>)
    IN  IF p.ok THEN {r.text : r \in Responses(p.reqType, p.values)} ELSE {ErrorLine}

\* C1: after a request line that failed parsing or validation and whose error
\* line was written in full, the connection is not closed: the request loop is
\* left on a failed dispatch only when a write failed or was cut short.
C1_ErrorKeepsConnection ==
    (reason = "msgfail" /\ LastResp = ErrorLine) => wfault /= "none"

\* What the server does with a stream, whatever the reads deliver of it: the
\* request lines it dispatches and why the request loop ends, given that no
\* read or write fails.  A line is dispatched when its newline is among the
\* first MSG_BUF_SIZE bytes not yet dispatched and no zero byte precedes it.
RECURSIVE OutcomeFrom(_, _)
OutcomeFrom(rest, acc) ==
    LET stops == {k \in 1 .. Len(rest) : rest[k] \in {NL, NUL}}
        first == IF stops = {} THEN 0
                 ELSE CHOOSE k \in stops : \A j \in stops : k <= j
    IN  IF first /= 0 /\ first <= MSG_BUF_SIZE /\ rest[first] = NL
        THEN LET line == SubSeq(rest, 1, first - 1)
             IN  IF ParseRequest(line \o <<NUL>>).ok
                 THEN OutcomeFrom(SubSeq(rest, first + 1, Len(rest)),
                                  Append(acc, line))
                 ELSE [lines |-> Append(acc, line), reason |-> "msgfail"]
        ELSE [lines  |-> acc,
              reason |-> IF Len(rest) >= MSG_BUF_SIZE THEN "toolong" ELSE "eos"]
Outcome(s) == OutcomeFrom(s, <<>>)

\* C2: however the bytes of a connection's stream are delivered by read() and
\* whatever select() reports, the request lines handed to handleMessage, the
\* responses written and the reason the connection ends are the same: they are
\* a function of the stream alone.
C2_DeliveryIndependent ==
    (wfault = "none" /\ reason /= "readfail")
        => /\ IsPrefixOf(lines, Outcome(stream).lines)
           /\ pc = "close"
                => /\ lines = Outcome(stream).lines
                   /\ reason = Outcome(stream).reason
                   /\ Len(resps) = Len(lines)
                   /\ out = Flatten(resps)

\* Two requests, delivered one byte per read, were both dispatched and the
\* connection ended at end of stream.
C2_Witness ==
    /\ pc = "close"
    /\ stream = ReqValid \o ReqValid
    /\ counter[COUNTER_READ] = Len(stream) + 1
    /\ lines = StreamLines(stream)
    /\ out = Flatten(resps)
    /\ reason = "eos"

\* C3: a request line is treated as oversized exactly when MSG_BUF_SIZE bytes
\* are buffered with no newline among them; a line that fits the buffer with
\* its newline is never rejected as oversized.
C3_OversizedExactly ==
    reason = "toolong"
        => /\ readyBytes = MSG_BUF_SIZE
           /\ \A k \in 1 .. MSG_BUF_SIZE : buf[k] /= NL

\* C4: every response is written completely: unless write() returned an error,
\* the server never leaves handleMessage with a response partly written.
C4_ResponsesWrittenInFull ==
    (pc \notin {"write", "fail"} /\ wfault /= "error") => out = Flatten(resps)

\* C8: within a connection the request lines are dispatched in the order of
\* their newlines in the stream, the k-th response answers the k-th line, and
\* a response is written in full before the next line is extracted; with no
\* failure and no zero byte, every line of the stream is answered.
C8_InOrder ==
    /\ IsPrefixOf(lines, StreamLines(SubSeq(stream, 1, sent)))
    /\ Len(resps) = (IF pc = "handleMessage" THEN Len(lines) - 1 ELSE Len(lines))
    /\ \A k \in 1 .. Len(resps) : resps[k] \in AnswersTo(lines[k])
    /\ IsPrefixOf(out, Flatten(resps))
    /\ pc = "handleMessage" => out = Flatten(resps)
    /\ (pc = "close" /\ reason = "eos" /\ \A k \in 1 .. Len(stream) : stream[k] /= NUL)
          => /\ lines = StreamLines(stream)
             /\ out = Flatten(resps)

\* Two valid requests arrived in a single read, and each was answered, in
\* order, with its own response line.
C8_Witness ==
    /\ pc = "close"
    /\ stream = ReqValid \o ReqValid
    /\ counter[COUNTER_READ] = 2
    /\ lines = StreamLines(stream)
    /\ Len(resps) = 2
    /\ out = Flatten(resps)

\* C9: an accepted connection is closed exactly once, however its request loop
\* ends; nothing is closed after a failed accept; and no descriptor is read,
\* written or closed when it is not open.
C9_ClosedOnce ==
    /\ ~misuse
    /\ closes = (IF fd = "closed" THEN 1 ELSE 0)
    /\ pc = "accept" => fd /= "open"
    /\ pc /= "accept" => fd = "open"

\* Two connections, one ended by a read failure and one by an oversized
\* message, have both been closed.
C9_Witness ==
    /\ pc = "accept"
    /\ fd = "closed"
    /\ closes = 1
    /\ counter[COUNTER_READ_FAIL] = 1
    /\ counter[COUNTER_DATA_TOO_LONG] = 1

\* C10: after a connection ends, for whatever reason, and after a failed
\* accept, the server thread is at accept() again: it never leaves the accept
\* loop.
C10_BackToAccept ==
    /\ [][(pc = "accept" /\ fd' = "none") => pc' = "accept"]_vars
    /\ [](pc \in {"accept", "loop", "handleMessage", "write", "fail",
                  "returned", "close"})
    /\ [](pc = "close" => <>(pc = "accept"))

\* The thread is back at accept() after a connection that ended on a failed
\* dispatch, with clients still to come.
C10_Witness ==
    /\ pc = "accept"
    /\ fd = "closed"
    /\ counter[COUNTER_MESSAGE_FAIL] = 1
    /\ budget > 0

\* The number of numeric result fields of each command's response.
ResultArity(kw) ==
    IF kw \in {REQ_STR_GET_WIND, REQ_STR_GET_WIND_GUST, REQ_STR_GET_OCEAN_CURRENT}
    THEN 2 ELSE 1

\* -999.0 as a response field.
SentinelField == <<"-", "9", "9", "9", ".", "0", "0", "0", "0", "0", "0">>

\* C11: a successful request produces exactly one response line: the keyword
\* of the request, the parsed latitude and longitude, then 2 numeric fields
\* for wind, wind_gust and ocean_current and 1 for sea_ice and wave_height;
\* when the ocean or wave query reports no data, each of these numeric fields
\* is the sentinel -999.0 and their number is the same.
C11_ResponseShape ==
    (Decided /\ LastResp /= ErrorLine /\ Fields(LastLine)[1] \in Keywords)
        => LET req == Fields(LastLine)
               f == Fields(SubSeq(LastResp, 1, Len(LastResp) - 1))
           IN  /\ LastResp[Len(LastResp)] = NL
               /\ \A k \in 1 .. Len(LastResp) - 1 : LastResp[k] /= NL
               /\ f[1] = req[1]
               /\ Len(f) = 3 + ResultArity(req[1])
               /\ f[2] = FormatF(StrToD(req[2]))
               /\ f[3] = FormatF(StrToD(req[3]))
               /\ \A k \in 4 .. Len(f) : Len(f[k]) > 7 /\ IsDigit(f[k][Len(f[k])])
               /\ nodata => \A k \in 4 .. Len(f) : f[k] = SentinelField
               /\ pc = "returned" /\ wfault = "none" => out = LastResp

\* "ocean_current,-90,180" was answered, the ocean query having no data, with
\* a line of two sentinel fields after the position.
C11_Witness ==
    /\ pc = "returned"
    /\ lines = <<REQ_STR_GET_OCEAN_CURRENT \o <<COMMA, "-", "9", "0", COMMA, "1", "8", "0">>>>
    /\ nodata
    /\ out = REQ_STR_GET_OCEAN_CURRENT
                \o <<COMMA>> \o <<"-", "9", "0", ".", "0", "0", "0", "0", "0", "0">>
                \o <<COMMA>> \o <<"1", "8", "0", ".", "0", "0", "0", "0", "0", "0">>
                \o <<COMMA>> \o SentinelField
                \o <<COMMA>> \o SentinelField
                \o <<NL>>

\* C12: NetServer_init starts the server thread only when listening was set
\* up: a negative port returns -3 and opens no socket; a failure of socket,
\* bind or listen returns -2 and creates no thread, and after a failure of
\* bind or listen the listening socket has been closed; accept() is never
\* called on a socket that is not listening.
C12_StartOnlyWhenListening ==
    /\ ~initDone => (~thread /\ listenFd = "none")
    /\ initDone =>
          /\ port < 0 <=> ret = -3
          /\ ret = -3 => (listenFd = "none" /\ ~thread)
          /\ startFault \in {"socket", "bind", "listen"} => (ret = -2 /\ ~thread)
          /\ startFault \in {"bind", "listen"} => listenFd = "closed"
          /\ thread <=> ret = 0
          /\ thread => listenFd = "listening"
    /\ pc /= "accept" => thread
    /\ counter[COUNTER_ACCEPT] > 0 => thread
    /\ ~badAccept

\* Started on port 0, the server has accepted a connection.
C12_Witness ==
    /\ initDone /\ port = 0 /\ ret = 0 /\ thread
    /\ listenFd = "listening"
    /\ counter[COUNTER_ACCEPT] = 1
    /\ fd = "open"

\* listen() failed: NetServer_init has returned -2 with the socket closed.
C12_WitnessListenFailed ==
    /\ initDone /\ startFault = "listen" /\ ret = -2 /\ listenFd = "closed"

\* The lines handed to handleMessage, each followed by its newline.
RECURSIVE WithNewlines(_)
WithNewlines(ls) ==
    IF ls = <<>> THEN <<>> ELSE Head(ls) \o <<NL>> \o WithNewlines(Tail(ls))

\* C13: at the head of every request-loop iteration readyBytes is within
\* 0 .. MSG_BUF_SIZE and the lines handed to handleMessage so far, each with
\* its newline, followed by buf[0 .. readyBytes), are exactly the bytes read
\* on the connection; while a line of length i is being handled, the bytes
\* buf[i .. readyBytes) are the ones read after it, which the compaction
\* moves to the front unchanged; readyBytes is 0 when a connection starts.
C13_ByteAccounting ==
    /\ pc = "loop" =>
          /\ readyBytes \in 0 .. MSG_BUF_SIZE
          /\ WithNewlines(lines) \o SubSeq(buf, 1, readyBytes) = SubSeq(stream, 1, sent)
          /\ sent = 0 => readyBytes = 0
    /\ pc \in {"handleMessage", "write", "fail", "returned"} =>
          /\ i \in 1 .. readyBytes
          /\ readyBytes \in 1 .. MSG_BUF_SIZE
          /\ WithNewlines(lines) \o SubSeq(buf, i + 1, readyBytes) = SubSeq(stream, 1, sent)

\* A request and half a buffer of further bytes arrived together; the request
\* has been answered and the further bytes are at the front of buf.
C13_Witness ==
    /\ pc = "loop"
    /\ stream = ReqValid \o Filler
    /\ sent = Len(stream)
    /\ counter[COUNTER_READ] = 1
    /\ Len(lines) = 1
    /\ readyBytes = Len(Filler)
    /\ SubSeq(buf, 1, readyBytes) = Filler

\* C14: whenever the valid bytes of the buffer, those buffered before and
\* those just read, contain a newline, the scan finds the first one and the
\* line handed to handleMessage is exactly the bytes before it, whatever
\* bytes precede the newline, a zero byte included; when they contain none,
\* no line is handed over.
C14_ScanFindsFirstNewline ==
    [][(pc = "loop" /\ reason' \notin {"toolong", "readfail"}) =>
          LET valid == SubSeq(stream', sent' - readyBytes' + 1, sent')
              nls == {k \in 1 .. Len(valid) : valid[k] = NL}
          IN  IF nls = {}
              THEN pc' /= "handleMessage"
              ELSE LET n == CHOOSE k \in nls : \A j \in nls : k <= j
                   IN  /\ pc' = "handleMessage"
                       /\ i' = n
                       /\ lines' = Append(lines, SubSeq(valid, 1, n - 1))]_vars

\* C15: once a read() has returned 0 no further read is attempted on the
\* connection; the request loop then ends as soon as the buffer holds no
\* complete line, and by then every newline-terminated line of the stream has
\* been dispatched, in order, and only those have been answered.
C15_DrainAfterEos ==
    /\ [][eos => counter'[COUNTER_READ] = counter[COUNTER_READ]]_vars
    /\ [][(eos /\ pc = "loop" /\ \A k \in 1 .. readyBytes : buf[k] /= NL)
             => pc' = "close"]_vars
    /\ []((eos /\ pc = "close" /\ wfault = "none")
             => /\ lines = StreamLines(stream)
                /\ Len(resps) = Len(lines))

\* C16: the message counter is the number of handleMessage calls that
\* returned 0 and the message_fail counter the number that returned non-zero.
C16_MessageCounters ==
    pc \notin {"handleMessage", "write", "fail", "returned"}
        => /\ counter[COUNTER_MESSAGE] = returns.ok
           /\ counter[COUNTER_MESSAGE_FAIL] = returns.fail

\* C17: every read() is given the offset readyBytes and a count of at least 1
\* that ends within buf; a read() that returned 0 means the client has closed
\* its end.
C17_ReadWithinBuffer ==
    /\ ~rdZero
    /\ rdSkew = 0
    /\ rdEnd <= MSG_BUF_SIZE
    /\ rdEnd /= -1 => rdEnd = MSG_BUF_SIZE
    /\ eos => sent = Len(stream)
    /\ readyBytes \in 0 .. MSG_BUF_SIZE

\* The buffer was filled one byte per read: the last read() was given the
\* offset MSG_BUF_SIZE - 1 and the count 1.
C17_Witness ==
    /\ pc = "loop"
    /\ readyBytes = MSG_BUF_SIZE
    /\ counter[COUNTER_READ] = MSG_BUF_SIZE
    /\ rdEnd = MSG_BUF_SIZE

\* C18: the scan dereferences only positions of buf below readyBytes + rb,
\* hence below MSG_BUF_SIZE.
C18_ScanWithinValidBytes ==
    [][(pc = "loop" /\ reason' \notin {"toolong", "readfail"})
          => (scanTop' < readyBytes' /\ scanTop' < MSG_BUF_SIZE)]_vars

\* C19: accept_fail <= accept, read_fail <= read, message_fail <= message,
\* read_fail + data_too_long + message_fail <= accept - accept_fail, and no
\* counter ever decreases.
C19_CounterRelations ==
    /\ [](/\ counter[COUNTER_ACCEPT_FAIL] <= counter[COUNTER_ACCEPT]
          /\ counter[COUNTER_READ_FAIL] <= counter[COUNTER_READ]
          /\ counter[COUNTER_MESSAGE_FAIL] <= counter[COUNTER_MESSAGE]
          /\ counter[COUNTER_READ_FAIL] + counter[COUNTER_DATA_TOO_LONG]
                + counter[COUNTER_MESSAGE_FAIL]
                <= counter[COUNTER_ACCEPT] - counter[COUNTER_ACCEPT_FAIL])
    /\ [][\A c \in COUNTER_ACCEPT .. COUNTER_MESSAGE_FAIL :
             counter'[c] >= counter[c]]_vars

\* Two connections have ended, one on a failed read and one on a failed
\* dispatch: the last relation holds with equality.
C19_Witness ==
    /\ pc = "accept"
    /\ counter[COUNTER_ACCEPT] = 2
    /\ counter[COUNTER_ACCEPT_FAIL] = 0
    /\ counter[COUNTER_READ_FAIL] = 1
    /\ counter[COUNTER_MESSAGE_FAIL] = 1

\* The sequence s without its k-th element.
Without(s, k) == SubSeq(s, 1, k - 1) \o SubSeq(s, k + 1, Len(s))

\* C20: the names in the registry list are pairwise distinct and _boatCount
\* is the number of entries reachable from _first; an add of a name already
\* present returns BoatRegistry_EXISTS and a remove of an absent name returns
\* null, each leaving the list and the count as they were; a successful add
\* appends at the tail and a successful remove unlinks the matching entry
\* only, returning its boat.
C20_RegistryList ==
    LET now == Entries(heap, _first)
        was == lastCall.before
        at == {k \in 1 .. Len(was) : was[k].name = lastCall.name}
    IN  /\ \A j, k \in 1 .. Len(now) : now[j].name = now[k].name => j = k
        /\ _boatCount = Len(now)
        /\ lastCall.op = "add" =>
              IF at /= {}
              THEN lastCall.result = BoatRegistry_EXISTS /\ now = was
              ELSE /\ lastCall.result = BoatRegistry_OK
                   /\ now = Append(was, [name |-> lastCall.name, boat |-> lastCall.boat])
        /\ lastCall.op = "remove" =>
              IF at = {}
              THEN lastCall.result = NullBoat /\ now = was
              ELSE \E k \in at : /\ lastCall.result = was[k].boat
                                 /\ now = Without(was, k)
        /\ lastCall.op \in {"get", "getAllBoats"} => now = was
        /\ lastCall.op = "getAllBoats" => lastCall.result = <<_first, Len(now)>>

\* The middle one of three entries has been removed; the other two are left,
\* in their order.
C20_Witness ==
    /\ lastCall.op = "remove"
    /\ Len(lastCall.before) = 3
    /\ lastCall.name = lastCall.before[2].name
    /\ Entries(heap, _first) = <<lastCall.before[1], lastCall.before[3]>>
    /\ _boatCount = 2

=============================================================================
